---------------------------- MODULE Spec2Model ----------------------------
(***************************************************************************)
(* A model of app.py of the weather dashboard: the reading store, the      *)
(* three collector threads (Arduino serial reader, KMA ultra-short-term    *)
(* scheduler, KMA ASOS hourly scheduler) and the read side (linear_fill,   *)
(* /api/chart_data).                                                       *)
(*                                                                         *)
(* Representation.                                                         *)
(*  - A datetime is an integer: seconds of KST wall-clock time counted     *)
(*    from a midnight.  Every datetime of the program is KST (naive ones   *)
(*    are tagged KST by ensure_kst_aware), so the tz tag is not carried.   *)
(*  - A float is an integer count of thousandths (1234 is 1.234), so that  *)
(*    round(x, 2) is not the identity on the values of the model.          *)
(*  - Python's None is None == <<>>, a present value v is <<v>>.           *)
(***************************************************************************)
EXTENDS Integers, Sequences, FiniteSets, Bags, TLC

VARIABLES
    now,                \* datetime.now(): the wall clock, in seconds
    store,              \* the weather_reading table: a bag of rows
    SERVER_START_KST,   \* the module global set in __main__ (None before)
    resp,               \* the response of the last HTTP request handled
    environ,            \* os.environ after load_dotenv
    s_pc,               \* read_from_arduino: where the thread is
    s_open,             \* read_from_arduino: ser is open
    s_line,             \* read_from_arduino: the last line read, split on ","
    last_min,           \* read_from_arduino: last_min
    s_wake,             \* read_from_arduino: when time.sleep(5) returns
    k_pc,               \* kma_ultra_scheduler: where the thread is
    k_fetches,          \* kma_ultra_scheduler: fetches finished (2: two or more)
    k_base,             \* fetch_kma_ultra_once: base
    k_i,                \* fetch_kma_ultra_once: index into candidate_bases
    k_retries,          \* the session's Retry: retries used by the current GET
    k_outcome,          \* fetch_kma_ultra_once: how the last GET of the cycle ended
    k_requests,         \* the base_dt of the GETs of this cycle, in order
    k_bucket,           \* fetch_kma_ultra_once: entries of bucket not yet upserted
    k_wrote,            \* the base_dt whose response this cycle committed rows from
    k_wake,             \* kma_ultra_scheduler: when time.sleep returns
    a_pc,               \* kma_asos_hourly_scheduler: where the thread is
    a_payload,          \* fetch_kma_asos_today: data_lines of this cycle
    a_next,             \* fetch_kma_asos_today: index of the next of data_lines
    a_outcome,          \* fetch_kma_asos_today: how the last cycle ended
    a_wake,             \* kma_asos_hourly_scheduler: when time.sleep returns
    ts_to_val,          \* linear_fill: the anchor map handed to the call
    timeline,           \* linear_fill: the label list handed to the call
    fill_out,           \* linear_fill: the list returned
    fill_done,          \* linear_fill: the call has returned
    args,               \* the arguments of the ten_min_range or ComputeErrors call
    ret,                \* what that call returned
    latest,             \* the response of the last /api/latest-data request
    k_row,              \* fetch_kma_ultra_once: row, as query.first() gave it
    a_row               \* fetch_kma_asos_today: row, as query.first() gave it

fillVars == <<ts_to_val, timeline, fill_out, fill_done>>

callVars == <<args, ret, latest>>

rowVars == <<k_row, a_row>>

arduinoVars == <<s_pc, s_open, s_line, last_min, s_wake>>

kma10Vars == <<k_pc, k_fetches, k_base, k_i, k_retries, k_outcome, k_requests,
               k_bucket, k_wrote, k_wake>>

vars == <<now, store, SERVER_START_KST, resp, environ, s_pc, s_open, s_line,
          last_min, s_wake, k_pc, k_fetches, k_base, k_i, k_retries, k_outcome,
          k_requests, k_bucket, k_wrote, k_wake,
          a_pc, a_payload, a_next, a_outcome, a_wake,
          ts_to_val, timeline, fill_out, fill_done, args, ret, latest,
          k_row, a_row>>

asosVars == <<a_pc, a_payload, a_next, a_outcome, a_wake>>

\* What a step of one thread leaves alone.
notArduino == <<now, SERVER_START_KST, resp, environ, kma10Vars, asosVars, fillVars,
     callVars, rowVars>>

notKmaUltra == <<now, SERVER_START_KST, resp, environ, arduinoVars, asosVars, fillVars,
     callVars, rowVars>>

notAsos == <<now, SERVER_START_KST, resp, environ, arduinoVars, kma10Vars, fillVars,
     callVars, rowVars>>

---------------------------------------------------------------------------
(* Optional values *)

None == <<>>

Some(v) == <<v>>

Get(x) == x[1]

---------------------------------------------------------------------------
(* Datetime utilities, app.py lines 52-100 *)

Minute(dt) == (dt \div 60) % 60

\* dt.replace(minute=m, second=0, microsecond=0)
ReplaceMinute(dt, m) == (dt \div 3600) * 3600 + m * 60

Second(dt) == dt % 60

Max(a, b) == IF a >= b THEN a ELSE b

ensure_kst_aware(dt) == dt

to_kst_naive(dt) == ensure_kst_aware(dt)

to_minute(dt) == ReplaceMinute(ensure_kst_aware(dt), Minute(ensure_kst_aware(dt)))

to_10min_floor(dt) ==
    LET d == ensure_kst_aware(dt)
        m == Minute(d) - (Minute(d) % 10)
    IN  ReplaceMinute(d, m)

kst_naive_10min_floor(dt) ==
    LET d == ensure_kst_aware(dt)
        m == Minute(d) - (Minute(d) % 10)
    IN  ReplaceMinute(d, m)

RECURSIVE RangeFrom(_, _)
RangeFrom(cur, end_dt) ==
    IF cur <= end_dt THEN <<cur>> \o RangeFrom(cur + 600, end_dt) ELSE <<>>

\* The range begun at start_dt as given, not at its 10-minute floor.
ten_min_range_NoFloor(start_dt, end_dt) ==
    RangeFrom(ensure_kst_aware(start_dt), to_10min_floor(ensure_kst_aware(end_dt)))

ten_min_range(start_dt, end_dt) ==
    RangeFrom(to_10min_floor(ensure_kst_aware(start_dt)),
              to_10min_floor(ensure_kst_aware(end_dt)))

---------------------------------------------------------------------------
(* linear_fill, app.py lines 102-129 *)

RECURSIVE sorted(_)
sorted(S) ==
    IF S = {} THEN <<>>
    ELSE LET m == CHOOSE x \in S : \A y \in S : x <= y
         IN  <<m>> \o sorted(S \ {m})

\* round(x, 2) of the rational num/den thousandths (den > 0): the nearest
\* multiple of 10 thousandths, a tie going to the even hundredth.
round2(num, den) ==
    LET q == num \div (10 * den)
        r == num - q * (10 * den)
    IN  IF 2 * r < 10 * den THEN 10 * q
        ELSE IF 2 * r > 10 * den THEN 10 * (q + 1)
        ELSE IF q % 2 = 0 THEN 10 * q ELSE 10 * (q + 1)

\* The pointer moved by an "if" in place of the "while": one step at most.
AdvanceI_Once(keys, i, t) ==
    IF i + 1 <= Len(keys) /\ keys[i + 1] <= t THEN i + 1 ELSE i

\* while i + 1 < len(keys) and keys[i + 1] <= t: i += 1   (i is 1-based here)
RECURSIVE AdvanceI(_, _, _)
AdvanceI(keys, i, t) ==
    IF i + 1 <= Len(keys) /\ keys[i + 1] <= t THEN AdvanceI(keys, i + 1, t) ELSE i

\* round(v1 + prog * (v2 - v1), 2) with prog = (t - left) / span
Interpolate(left, v1, right, v2, t) ==
    LET span == right - left
    IN  IF span > 0
        THEN Some(round2(Get(v1) * span + (t - left) * (Get(v2) - Get(v1)), span))
        ELSE Some(round2(Get(v1), 1))

\* The clamped values rounded like the interpolated ones.
FillOne_RoundedEdges(norm_map, keys, i, t) ==
    LET rounded(v) == IF v = None THEN None ELSE Some(round2(Get(v), 1))
    IN  IF t <= keys[1] THEN rounded(norm_map[keys[1]])
        ELSE IF t >= keys[Len(keys)] THEN rounded(norm_map[keys[Len(keys)]])
        ELSE LET left  == keys[i]
                 right == keys[i + 1]
                 v1    == norm_map[left]
                 v2    == norm_map[right]
             IN  IF v1 = None \/ v2 = None THEN None
                 ELSE Interpolate(left, v1, right, v2, t)

\* One iteration of "for t in tl", given the pointer i the while loop left.
FillOne(norm_map, keys, i, t) ==
    IF t <= keys[1] THEN norm_map[keys[1]]
    ELSE IF t >= keys[Len(keys)] THEN norm_map[keys[Len(keys)]]
    ELSE LET left  == keys[i]
             right == keys[i + 1]
             v1    == norm_map[left]
             v2    == norm_map[right]
         IN  IF v1 = None \/ v2 = None THEN None
             ELSE Interpolate(left, v1, right, v2, t)

RECURSIVE FillLoop(_, _, _, _, _)
FillLoop(norm_map, keys, tl, k, i) ==
    IF k > Len(tl) THEN <<>>
    ELSE LET i2 == AdvanceI(keys, i, tl[k])
         IN  <<FillOne(norm_map, keys, i2, tl[k])>>
             \o FillLoop(norm_map, keys, tl, k + 1, i2)

linear_fill(m, tline) ==
    IF DOMAIN m = {} THEN [k \in 1..Len(tline) |-> None]
    ELSE LET norm_map == [t \in {to_kst_naive(k) : k \in DOMAIN m} |->
                             m[CHOOSE k \in DOMAIN m : to_kst_naive(k) = t]]
             tl       == [k \in 1..Len(tline) |-> to_kst_naive(tline[k])]
             keys     == sorted(DOMAIN norm_map)
         IN  FillLoop(norm_map, keys, tl, 1, 1)

---------------------------------------------------------------------------
(* The reading store: class WeatherReading, app.py lines 36-43 *)

WeatherReading(src, t, h, p, ts) ==
    [source |-> src, temperature |-> t, humidity |-> h, pressure |-> p,
     timestamp |-> ts]

Rows == BagToSet(store)

\* getattr(r, field)
getattr(r, field) ==
    CASE field = "temperature" -> r.temperature
      [] field = "humidity"    -> r.humidity
      [] field = "pressure"    -> r.pressure

\* .order_by(WeatherReading.timestamp).all() over a set of rows
RECURSIVE order_by_timestamp(_)
order_by_timestamp(S) ==
    IF S = {} THEN <<>>
    ELSE LET r == CHOOSE x \in S : \A y \in S : x.timestamp <= y.timestamp
         IN  <<r>> \o order_by_timestamp(S \ {r})

\* filter(source == src, timestamp.between(lo, hi))
FilterBetween(src, lo, hi) ==
    {r \in Rows : r.source = src /\ lo <= r.timestamp /\ r.timestamp <= hi}

---------------------------------------------------------------------------
(* Text read from the outside: float() and int(), by what they accept *)

\* float(tok) of the texts the model feeds in, in thousandths; any other
\* text makes float() raise ValueError.
FloatTable ==
    [tok \in {"21.0", "1.234", "40.0", "1013.0", "-999.0", "-999", "-999.00"} |->
        CASE tok = "21.0"    -> 21000
          [] tok = "1.234"   -> 1234
          [] tok = "40.0"    -> 40000
          [] tok = "1013.0"  -> 1013000
          [] tok = "-999.0"  -> -999000
          [] tok = "-999"    -> -999000
          [] tok = "-999.00" -> -999000]

FloatOk(tok) == tok \in DOMAIN FloatTable

float(tok) == FloatTable[tok]

\* int(tok) succeeds on a decimal numeral.
IntOk(tok) == tok \in {"9600", "98", "76"}

\* env(key, default), app.py lines 48-50
env(key, default) == IF environ[key] # "" THEN environ[key] ELSE default

---------------------------------------------------------------------------
(* Writes to the store *)

\* The table without its unique constraint.
uniq_source_ts_Off(src, ts) == TRUE

\* UniqueConstraint("source", "timestamp"): may a row with this key be added?
uniq_source_ts(src, ts) ==
    ~\E r \in Rows : r.source = src /\ r.timestamp = ts

\* query.filter_by(source=src, timestamp=ts).first() finds a row
HasRow(src, ts) == \E r \in Rows : r.source = src /\ r.timestamp = ts

FirstRow(src, ts) == CHOOSE r \in Rows : r.source = src /\ r.timestamp = ts

\* A lookup that finds nothing, whatever the table holds.
Lookup_Blind(src, ts) == None

\* row = WeatherReading.query.filter_by(source=src, timestamp=ts).first()
Lookup(src, ts) == IF HasRow(src, ts) THEN Some(FirstRow(src, ts)) ELSE None

\* db.session.add(row); db.session.commit(), when the constraint lets it.
AddRow(row) == store (+) SetToBag({row})

\* row.<field> = ...; db.session.commit()
ReplaceRow(old, new) == (store (-) SetToBag({old})) (+) SetToBag({new})

---------------------------------------------------------------------------
(* The clock *)

\* The clock is followed for MaxTicks steps of 30 s.
MaxTicks == 2

\* 09:59:00, a minute before a 10-minute and an hour boundary
ClockStart == 10 * 3600 - 60

Tick ==
    /\ now < ClockStart + MaxTicks * 30
    /\ now' = now + 30
    /\ UNCHANGED <<store, SERVER_START_KST, resp, environ>>
    /\ UNCHANGED <<arduinoVars, kma10Vars, asosVars, fillVars, callVars, rowVars>>

---------------------------------------------------------------------------
(* read_from_arduino, app.py lines 333-378 *)

\* Lines of the serial device, split on ",": empty (read timeout), one
\* field, two and three fields, a bad first number, a bad pressure.
Lines ==
    {<<>>, <<"21.0">>, <<"21.0", "40.0">>, <<"1.234", "40.0", "1013.0">>,
     <<"x", "40.0">>, <<"21.0", "40.0", "x">>}

\* Lines 349-356: the line parses to t, h and p.
LineOk(line) ==
    /\ Len(line) >= 2
    /\ FloatOk(line[1])
    /\ FloatOk(line[2])
    /\ Len(line) >= 3 => FloatOk(line[3])

LineReading(line, minute) ==
    WeatherReading("Arduino", Some(float(line[1])), Some(float(line[2])),
                   IF Len(line) >= 3 THEN Some(float(line[3])) ELSE None, minute)

\* Lines 334-335: int(env("ARDUINO_BAUD", "9600")) is outside every try.
ArduinoStart ==
    /\ s_pc = "start"
    /\ s_pc' = IF IntOk(env("ARDUINO_BAUD", "9600")) THEN "connect" ELSE "terminated"
    /\ UNCHANGED <<s_open, s_line, last_min, s_wake, store>>
    /\ UNCHANGED notArduino

\* Line 343: serial.Serial(port, baud, timeout=2) opens the port or raises;
\* the handler of lines 370-372 then sleeps 5 s.
ArduinoConnectOf(oks) ==
    /\ s_pc = "connect"
    /\ \E ok \in oks :
          IF ok THEN /\ s_pc' = "read"
                     /\ s_open' = TRUE
                     /\ UNCHANGED s_wake
          ELSE /\ s_pc' = "sleep"
               /\ s_wake' = now + 5
               /\ UNCHANGED s_open
    /\ UNCHANGED <<s_line, last_min, store>>
    /\ UNCHANGED notArduino

\* The KMA policy in place of the insert: an existing row of the minute is
\* overwritten.
ArduinoSample_Upsert(line) ==
    LET minute == to_minute(now)
    IN  IF Some(minute) # last_min
        THEN IF HasRow("Arduino", minute)
             THEN /\ store' = ReplaceRow(FirstRow("Arduino", minute),
                                         LineReading(line, minute))
                  /\ last_min' = Some(minute)
             ELSE /\ store' = AddRow(LineReading(line, minute))
                  /\ last_min' = Some(minute)
        ELSE UNCHANGED <<store, last_min>>

\* Lines 358-369 for a line that parsed.
ArduinoSample(line) ==
    LET minute == to_minute(now)
    IN  IF Some(minute) # last_min
        THEN IF uniq_source_ts("Arduino", minute)
             THEN /\ store' = AddRow(LineReading(line, minute))
                  /\ last_min' = Some(minute)
             ELSE \* IntegrityError: db.session.rollback()
                  UNCHANGED <<store, last_min>>
        ELSE UNCHANGED <<store, last_min>>

ArduinoConnect == ArduinoConnectOf(BOOLEAN)

\* One pass of the inner loop (lines 346-369), or, where the device can
\* fail, ser.readline() raising.
ArduinoReadWhen(lines, can_fail) ==
    /\ s_pc = "read"
    /\ \/ \E line \in lines :
             /\ s_line' = line
             /\ IF LineOk(line) THEN ArduinoSample(line)
                ELSE UNCHANGED <<store, last_min>>
             /\ UNCHANGED <<s_pc, s_open, s_wake>>
       \/ /\ can_fail
          /\ s_pc' = "sleep"
          /\ s_wake' = now + 5
          /\ UNCHANGED <<s_open, s_line, last_min, store>>
    /\ UNCHANGED notArduino

ArduinoReadOf(lines) == ArduinoReadWhen(lines, TRUE)

\* last_min set anew on every pass of the outer loop.
ArduinoRetry_ForgetMinute ==
    /\ s_pc = "sleep"
    /\ now >= s_wake
    /\ s_pc' = "connect"
    /\ s_open' = FALSE
    /\ last_min' = None
    /\ UNCHANGED <<s_line, s_wake, store>>
    /\ UNCHANGED notArduino

\* time.sleep(5) is over; the finally clause closes the port (lines 373-378).
ArduinoRetry ==
    /\ s_pc = "sleep"
    /\ now >= s_wake
    /\ s_pc' = "connect"
    /\ s_open' = FALSE
    /\ UNCHANGED <<s_line, last_min, s_wake, store>>
    /\ UNCHANGED notArduino

ArduinoRead == ArduinoReadOf(Lines)

---------------------------------------------------------------------------
(* fetch_kma_ultra_once and kma_ultra_scheduler, app.py lines 136-251 *)

\* Retry(total=3, ...): a GET is tried again up to 3 times.
RetryTotal == 3

\* range(0, 6): the candidate bases of one cycle.
NumCandidates == 6

Item(when, cat, val) == [when |-> when, category |-> cat, obsrValue |-> val]

\* The item lists of a "00" answer.  An item's baseDate/baseTime is that of
\* the slot asked for ("same"), of the slot before ("prev"), missing ("") or
\* not a date ("bad").
ItemLists ==
    {<<Item("same", "T1H", "21.0"), Item("same", "REH", "40.0")>>,
     <<Item("", "T1H", "21.0"), Item("same", "T1H", "1.234")>>,
     <<Item("same", "REH", "40.0"), Item("same", "T1H", "x")>>,
     <<Item("same", "RN1", "21.0")>>,
     <<Item("same", "T1H", "21.0"), Item("prev", "REH", "40.0")>>,
     <<Item("same", "T1H", "21.0"), Item("bad", "REH", "40.0")>>,
     <<>>}

\* What one HTTP attempt can come to: a connect/read error or a 429/5xx
\* status (the Retry's cases), a 4xx status, a body that is not the JSON
\* expected, a resultCode "03", another resultCode, or "00" with items.
AttemptResults ==
    {[kind |-> "transient"], [kind |-> "http_error"], [kind |-> "malformed"],
     [kind |-> "no_data"], [kind |-> "api_error"]}
    \cup {[kind |-> "items", items |-> il] : il \in ItemLists}

\* datetime.strptime(bdate + btime, "%Y%m%d%H%M").replace(tzinfo=KST)
ItemTs(it, base_dt) == IF it.when = "same" THEN base_dt ELSE base_dt - 600

\* bucket.setdefault(ts, {"T1H": None, "REH": None}) and bucket[ts][cat] = float(val)
\* on the list of entries <<ts, T1H, REH>>, kept in insertion order.
BucketPut(entries, ts, cat, val) ==
    LET have == \E n \in 1..Len(entries) : entries[n][1] = ts
        base == IF have THEN entries ELSE Append(entries, <<ts, None, None>>)
        set  == cat \in {"T1H", "REH"} /\ FloatOk(val)
    IN  [n \in 1..Len(base) |->
            IF base[n][1] = ts /\ set
            THEN IF cat = "T1H" THEN <<ts, Some(float(val)), base[n][3]>>
                 ELSE <<ts, base[n][2], Some(float(val))>>
            ELSE base[n]]

\* Lines 200-212.  ok is FALSE when strptime raises.
RECURSIVE BuildBucket(_, _, _, _)
BuildBucket(items, base_dt, n, entries) ==
    IF n > Len(items) THEN [ok |-> TRUE, entries |-> entries]
    ELSE IF items[n].when = "" THEN BuildBucket(items, base_dt, n + 1, entries)
    ELSE IF items[n].when = "bad" THEN [ok |-> FALSE, entries |-> <<>>]
    ELSE BuildBucket(items, base_dt, n + 1,
                     BucketPut(entries, ItemTs(items[n], base_dt),
                               items[n].category, items[n].obsrValue))

\* The incoming values assigned whether or not they are None.
MergeKma10_Overwrite(row, t, h) ==
    [row EXCEPT !.temperature = t, !.humidity = h]

\* Lines 220-229: the row of (KMA10, ts) after the upsert of t and h.
MergeKma10(row, t, h) ==
    [row EXCEPT !.temperature = IF t # None THEN t ELSE @,
                !.humidity    = IF h # None THEN h ELSE @]

\* fetch_kma_ultra_once returns; the scheduler sleeps 3 s after the first
\* fetch, and to the next 10-minute boundary (5 s at least) after the others.
KmaUltraReturn ==
    /\ k_pc' = "sleep"
    /\ k_fetches' = IF k_fetches = 0 THEN 1 ELSE 2
    /\ k_wake' = IF k_fetches = 0 THEN now + 3
                 ELSE now + Max(5, 600 - ((Minute(now) % 10) * 60 + Second(now)))

\* The rest of the cycle skipped after a GET that came to nothing.
KmaUltraContinue_SkipCycle(outcome) ==
    /\ k_outcome' = outcome
    /\ k_retries' = 0
    /\ k_i' = k_i + 1
    /\ KmaUltraReturn

\* "continue": on to the next candidate base, if there is one.
KmaUltraContinue(outcome) ==
    /\ k_outcome' = outcome
    /\ k_retries' = 0
    /\ k_i' = k_i + 1
    /\ IF k_i + 1 < NumCandidates
       THEN /\ k_pc' = "request"
            /\ UNCHANGED <<k_fetches, k_wake>>
       ELSE KmaUltraReturn

\* Lines 151-166.  int(env("KMA_NX", "98")) and int(env("KMA_NY", "76")) are
\* outside every try: a ValueError ends kma_ultra_scheduler.
KmaUltraBegin ==
    /\ k_pc = "begin"
    /\ IF ~IntOk(env("KMA_NX", "98")) \/ ~IntOk(env("KMA_NY", "76"))
       THEN /\ k_pc' = "terminated"
            /\ UNCHANGED <<k_fetches, k_base, k_i, k_retries, k_outcome,
                           k_requests, k_wrote, k_wake>>
       ELSE IF env("KMA_SERVICE_KEY", "") = ""
       THEN /\ KmaUltraReturn
            /\ UNCHANGED <<k_base, k_i, k_retries, k_outcome, k_requests, k_wrote>>
       ELSE /\ k_pc' = "request"
            /\ k_base' = to_10min_floor(now - 60)
            /\ k_i' = 0
            /\ k_retries' = 0
            /\ k_outcome' = "none"
            /\ k_requests' = <<>>
            /\ k_wrote' = {}
            /\ UNCHANGED <<k_fetches, k_wake>>
    /\ UNCHANGED <<k_bucket, store>>
    /\ UNCHANGED notKmaUltra

\* One HTTP attempt of session.get for candidate_bases[k_i] and what lines
\* 181-212 make of its answer.
KmaUltraRequestOf(results) ==
    /\ k_pc = "request"
    /\ LET base_dt == k_base - 600 * k_i
       IN  /\ k_requests' = IF k_retries = 0 THEN Append(k_requests, base_dt)
                            ELSE k_requests
           /\ \E res \in results :
                CASE res.kind = "transient" ->
                       IF k_retries < RetryTotal
                       THEN /\ k_retries' = k_retries + 1
                            /\ UNCHANGED <<k_pc, k_fetches, k_i, k_outcome,
                                           k_bucket, k_wake>>
                       ELSE /\ KmaUltraContinue("net_fail")
                            /\ UNCHANGED k_bucket
                  [] res.kind \in {"http_error", "malformed", "no_data", "api_error"} ->
                       /\ KmaUltraContinue(res.kind)
                       /\ UNCHANGED k_bucket
                  [] res.kind = "items" ->
                       LET b == BuildBucket(res.items, base_dt, 1, <<>>)
                       IN  IF res.items = <<>>
                           THEN /\ KmaUltraContinue("empty")
                                /\ UNCHANGED k_bucket
                           ELSE IF ~b.ok
                           THEN /\ KmaUltraContinue("malformed")
                                /\ UNCHANGED k_bucket
                           ELSE /\ k_pc' = "upsert"
                                /\ k_bucket' = b.entries
                                /\ k_outcome' = "data"
                                /\ k_retries' = 0
                                /\ UNCHANGED <<k_fetches, k_i, k_wake>>
    /\ UNCHANGED <<k_base, k_wrote, store>>
    /\ UNCHANGED notKmaUltra

\* The "break" left out: on to the next candidate base after a hit.
KmaUltraBreak_Missing == KmaUltraContinue("data")

\* Line 233, "break": the nearest slot with data is in, the cycle is over.
KmaUltraBreak ==
    /\ KmaUltraReturn
    /\ UNCHANGED <<k_i, k_retries, k_outcome>>

\* One pass of "for ts, vals in bucket.items()" (lines 216-230), or, the
\* bucket done, the break of line 233.
KmaUltraUpsert ==
    /\ k_pc = "upsert"
    /\ IF k_bucket = <<>>
       THEN /\ KmaUltraBreak
            /\ UNCHANGED <<k_bucket, k_wrote, store>>
       ELSE LET ts == Head(k_bucket)[1]
                t  == Head(k_bucket)[2]
                h  == Head(k_bucket)[3]
            IN  IF t = None /\ h = None
                THEN /\ k_bucket' = Tail(k_bucket)
                     /\ UNCHANGED <<k_pc, k_fetches, k_i, k_retries, k_outcome,
                                    k_wrote, k_wake, store>>
                ELSE IF HasRow("KMA10", ts)
                THEN /\ store' = ReplaceRow(FirstRow("KMA10", ts),
                                            MergeKma10(FirstRow("KMA10", ts), t, h))
                     /\ k_bucket' = Tail(k_bucket)
                     /\ k_wrote' = k_wrote \cup {k_base - 600 * k_i}
                     /\ UNCHANGED <<k_pc, k_fetches, k_i, k_retries, k_outcome, k_wake>>
                ELSE IF uniq_source_ts("KMA10", ts)
                THEN /\ store' = AddRow(WeatherReading("KMA10", t, h, None, ts))
                     /\ k_bucket' = Tail(k_bucket)
                     /\ k_wrote' = k_wrote \cup {k_base - 600 * k_i}
                     /\ UNCHANGED <<k_pc, k_fetches, k_i, k_retries, k_outcome, k_wake>>
                ELSE \* IntegrityError, caught at line 235
                     /\ KmaUltraContinue("store_error")
                     /\ k_bucket' = <<>>
                     /\ UNCHANGED <<k_wrote, store>>
    /\ UNCHANGED <<k_base, k_requests>>
    /\ UNCHANGED notKmaUltra

\* The upsert of lines 216-230 at the grain of its database calls: the
\* query of line 220 here, the commit of line 224 or 229 in KmaUltraCommit;
\* the other threads and the read routes may run between the two.
KmaUltraLookup ==
    /\ k_pc = "upsert"
    /\ IF k_bucket = <<>>
       THEN /\ KmaUltraBreak
            /\ UNCHANGED <<k_bucket, k_row>>
       ELSE LET ts == Head(k_bucket)[1]
                t  == Head(k_bucket)[2]
                h  == Head(k_bucket)[3]
            IN  IF t = None /\ h = None
                THEN /\ k_bucket' = Tail(k_bucket)
                     /\ UNCHANGED <<k_pc, k_fetches, k_i, k_retries, k_outcome,
                                    k_wake, k_row>>
                ELSE /\ k_row' = Lookup("KMA10", ts)
                     /\ k_pc' = "commit"
                     /\ UNCHANGED <<k_fetches, k_i, k_retries, k_outcome,
                                    k_wake, k_bucket>>
    /\ UNCHANGED <<k_base, k_requests, k_wrote, store>>
    /\ UNCHANGED <<now, SERVER_START_KST, resp, environ, arduinoVars, asosVars,
                   fillVars, callVars, a_row>>

\* Lines 221-229: the UPDATE of the row found, or the INSERT of a new one,
\* and its commit; an IntegrityError is caught at line 235.
KmaUltraCommit ==
    /\ k_pc = "commit"
    /\ LET ts == Head(k_bucket)[1]
           t  == Head(k_bucket)[2]
           h  == Head(k_bucket)[3]
       IN  IF k_row # None /\ HasRow("KMA10", ts)
           THEN /\ store' = ReplaceRow(FirstRow("KMA10", ts),
                                       MergeKma10(FirstRow("KMA10", ts), t, h))
                /\ k_bucket' = Tail(k_bucket)
                /\ k_wrote' = k_wrote \cup {k_base - 600 * k_i}
                /\ k_pc' = "upsert"
                /\ UNCHANGED <<k_fetches, k_i, k_retries, k_outcome, k_wake>>
           ELSE IF k_row = None /\ uniq_source_ts("KMA10", ts)
           THEN /\ store' = AddRow(WeatherReading("KMA10", t, h, None, ts))
                /\ k_bucket' = Tail(k_bucket)
                /\ k_wrote' = k_wrote \cup {k_base - 600 * k_i}
                /\ k_pc' = "upsert"
                /\ UNCHANGED <<k_fetches, k_i, k_retries, k_outcome, k_wake>>
           ELSE /\ KmaUltraContinue("store_error")
                /\ k_bucket' = <<>>
                /\ UNCHANGED <<k_wrote, store>>
    /\ k_row' = None
    /\ UNCHANGED <<k_base, k_requests>>
    /\ UNCHANGED <<now, SERVER_START_KST, resp, environ, arduinoVars, asosVars,
                   fillVars, callVars, a_row>>

\* time.sleep is over: the next fetch_kma_ultra_once.
KmaUltraWake ==
    /\ k_pc = "sleep"
    /\ now >= k_wake
    /\ k_pc' = "begin"
    /\ UNCHANGED <<k_fetches, k_base, k_i, k_retries, k_outcome, k_requests,
                   k_bucket, k_wrote, k_wake, store>>
    /\ UNCHANGED notKmaUltra

KmaUltraRequest == KmaUltraRequestOf(AttemptResults)

---------------------------------------------------------------------------
(* /api/chart_data/<cat>, app.py lines 412-477 *)

\* t.strftime("%H:%M"), as the number HHMM
strftime_HM(dt) == ((dt \div 3600) % 24) * 100 + Minute(dt)

\* now.replace(hour=0, minute=0, second=0, microsecond=0)
DayStart(dt) == (dt \div 86400) * 86400

\* The anchors built without the "if v is not None" test.
RECURSIVE KmaMap_KeepNull(_, _, _, _)
KmaMap_KeepNull(recs, field, k, acc) ==
    IF k > Len(recs) THEN acc
    ELSE LET v    == getattr(recs[k], field)
             slot == kst_naive_10min_floor(recs[k].timestamp)
         IN  KmaMap_KeepNull(recs, field, k + 1,
                             [t \in DOMAIN acc \cup {slot} |->
                                 IF t = slot THEN v ELSE acc[t]])

\* The anchors built with setdefault: the first value of a slot stays.
RECURSIVE KmaMap_FirstWins(_, _, _, _)
KmaMap_FirstWins(recs, field, k, acc) ==
    IF k > Len(recs) THEN acc
    ELSE LET v    == getattr(recs[k], field)
             slot == kst_naive_10min_floor(recs[k].timestamp)
         IN  IF v # None /\ slot \notin DOMAIN acc
             THEN KmaMap_FirstWins(recs, field, k + 1,
                                   [t \in DOMAIN acc \cup {slot} |->
                                       IF t = slot THEN v ELSE acc[t]])
             ELSE KmaMap_FirstWins(recs, field, k + 1, acc)

\* for r in kma_recs: if v is not None: kma_map[slot] = v
RECURSIVE KmaMap(_, _, _, _)
KmaMap(recs, field, k, acc) ==
    IF k > Len(recs) THEN acc
    ELSE LET v    == getattr(recs[k], field)
             slot == kst_naive_10min_floor(recs[k].timestamp)
         IN  IF v # None
             THEN KmaMap(recs, field, k + 1,
                         [t \in DOMAIN acc \cup {slot} |->
                             IF t = slot THEN v ELSE acc[t]])
             ELSE KmaMap(recs, field, k + 1, acc)

\* The bucket built with setdefault: the first record of a slot stays.
RECURSIVE ArdBucket_FirstWins(_, _, _, _, _)
ArdBucket_FirstWins(recs, field, label_set, k, acc) ==
    IF k > Len(recs) THEN acc
    ELSE LET slot == kst_naive_10min_floor(recs[k].timestamp)
         IN  IF slot \in label_set /\ slot \notin DOMAIN acc
             THEN ArdBucket_FirstWins(recs, field, label_set, k + 1,
                                      [t \in DOMAIN acc \cup {slot} |->
                                          IF t = slot THEN getattr(recs[k], field)
                                          ELSE acc[t]])
             ELSE ArdBucket_FirstWins(recs, field, label_set, k + 1, acc)

\* for r in ard_recs: if slot in label_set: bucket[slot] = getattr(r, field)
RECURSIVE ArdBucket(_, _, _, _, _)
ArdBucket(recs, field, label_set, k, acc) ==
    IF k > Len(recs) THEN acc
    ELSE LET slot == kst_naive_10min_floor(recs[k].timestamp)
         IN  IF slot \in label_set
             THEN ArdBucket(recs, field, label_set, k + 1,
                            [t \in DOMAIN acc \cup {slot} |->
                                IF t = slot THEN getattr(recs[k], field) ELSE acc[t]])
             ELSE ArdBucket(recs, field, label_set, k + 1, acc)

EmptyMap == [t \in {} |-> None]

\* The start of the label window: (start_aw) of lines 426-442.
ChartStart ==
    LET day_start     == DayStart(now)
        session_start == IF SERVER_START_KST # None THEN Get(SERVER_START_KST)
                         ELSE day_start
        ard           == {r \in Rows : /\ r.source = "Arduino"
                                       /\ r.timestamp >= session_start
                                       /\ r.timestamp <= now}
    IN  IF ard # {}
        THEN LET first_arduino == order_by_timestamp(ard)[1]
                 start_aw      == to_10min_floor(first_arduino.timestamp)
             IN  IF now - start_aw < 600 THEN start_aw - 600 ELSE start_aw
        ELSE to_10min_floor(Max(session_start, now - 3600))

get_chart_data(cat) ==
    IF cat = "pressure" THEN [status |-> 404, error |-> "pressure graph disabled"]
    ELSE IF cat \notin {"temperature", "humidity"}
    THEN [status |-> 404, error |-> "bad field"]
    ELSE
    LET field     == cat
        start_aw  == ChartStart
        labels_aw == ten_min_range(start_aw, now)
        labels_dt == [k \in 1..Len(labels_aw) |-> to_kst_naive(labels_aw[k])]
        labels    == [k \in 1..Len(labels_aw) |-> strftime_HM(labels_aw[k])]
        label_set == {labels_dt[k] : k \in 1..Len(labels_dt)}
        kma_recs  == order_by_timestamp(FilterBetween("KMA10", start_aw - 7200, now))
        kma_map   == KmaMap(kma_recs, field, 1, EmptyMap)
        kma_vals  == linear_fill(kma_map, labels_dt)
        ard_recs  == order_by_timestamp(FilterBetween("Arduino", start_aw, now))
        bucket    == ArdBucket(ard_recs, field, label_set, 1, EmptyMap)
        ard_vals  == [k \in 1..Len(labels_dt) |->
                         IF labels_dt[k] \in DOMAIN bucket
                         THEN bucket[labels_dt[k]] ELSE None]
    IN  [status |-> 200, cat |-> cat, labels |-> labels, labels_dt |-> labels_dt,
         kma_values |-> kma_vals, arduino_values |-> ard_vals]

NoResponse == [status |-> 0]

\* A handler that records the request in the table.
ChartData_Logging(cat) ==
    /\ resp' = get_chart_data(cat)
    /\ store' = IF uniq_source_ts("chart", now)
                THEN AddRow(WeatherReading("chart", None, None, None, now))
                ELSE store
    /\ UNCHANGED <<now, SERVER_START_KST, environ>>
    /\ UNCHANGED <<arduinoVars, kma10Vars, asosVars, fillVars, callVars, rowVars>>

ChartData(cat) ==
    /\ resp' = get_chart_data(cat)
    /\ UNCHANGED <<now, store, SERVER_START_KST, environ>>
    /\ UNCHANGED <<arduinoVars, kma10Vars, asosVars, fillVars, callVars, rowVars>>

---------------------------------------------------------------------------
(* /api/latest-data, app.py lines 479-505 *)

\* The rows of S that .order_by(timestamp.desc()).first() may give: any row
\* with the greatest timestamp; None when S is empty.
FirstDesc(S) ==
    IF S = {} THEN {None}
    ELSE {Some(r) : r \in {x \in S : \A y \in S : y.timestamp <= x.timestamp}}

\* {"temperature": row.temperature if row else None, ...}
SideOf(row) ==
    IF row = None
    THEN [temperature |-> None, humidity |-> None, pressure |-> None]
    ELSE [temperature |-> Get(row).temperature, humidity |-> Get(row).humidity,
          pressure |-> Get(row).pressure]

\* The answers get_latest_data can give in this state.
get_latest_data ==
    LET start == DayStart(ensure_kst_aware(now))
        kmas  == FirstDesc({r \in Rows : /\ r.source \in {"KMA10", "KMA"}
                                          /\ r.timestamp >= start})
        ards  == FirstDesc({r \in Rows : r.source = "Arduino"})
    IN  {[status |-> 200, kma |-> SideOf(k), arduino |-> SideOf(a)] :
            k \in kmas, a \in ards}

LatestData ==
    /\ latest' \in get_latest_data
    /\ UNCHANGED <<now, store, SERVER_START_KST, resp, environ, args, ret>>
    /\ UNCHANGED <<arduinoVars, kma10Vars, asosVars, fillVars, rowVars>>

---------------------------------------------------------------------------
(* ComputeErrors, spec.md section 4.4 (no code of it in app.py) *)

\* The error of one index, signed: sensor below reference gives a negative.
ErrorAt_Signed(sv, rv) ==
    IF sv = None \/ rv = None THEN None
    ELSE IF Get(rv) = 0 THEN None
    ELSE LET r == IF Get(rv) < 0 THEN -Get(rv) ELSE Get(rv)
             d == Get(sv) - Get(rv)
         IN  IF d >= 0 THEN Some(round2(100000 * d, r))
             ELSE Some(-round2(100000 * (-d), r))

\* |sensor - reference| / |reference| * 100 rounded to 2 decimals, or null.
ErrorAt(sv, rv) ==
    IF sv = None \/ rv = None THEN None
    ELSE IF Get(rv) = 0 THEN None
    ELSE LET r == IF Get(rv) < 0 THEN -Get(rv) ELSE Get(rv)
             d == IF Get(sv) >= Get(rv) THEN Get(sv) - Get(rv) ELSE Get(rv) - Get(sv)
         IN  Some(round2(100000 * d, r))

RECURSIVE SumErrors(_, _)
SumErrors(errors, k) ==
    IF k > Len(errors) THEN 0
    ELSE (IF errors[k] = None THEN 0 ELSE Get(errors[k])) + SumErrors(errors, k + 1)

\* The last non-null error, scanning from the end backward.
RECURSIVE LatestError(_, _)
LatestError(errors, k) ==
    IF k = 0 THEN None
    ELSE IF errors[k] # None THEN errors[k]
    ELSE LatestError(errors, k - 1)

\* (errors, average, latest); the average is the fraction num/den of
\* thousandths, None when no error is non-null.
ComputeErrors(sensorSeries, referenceSeries) ==
    LET errors == [k \in 1..Len(sensorSeries) |->
                      ErrorAt(sensorSeries[k], referenceSeries[k])]
        n      == Cardinality({k \in 1..Len(errors) : errors[k] # None})
    IN  [errors  |-> errors,
         average |-> IF n = 0 THEN None
                     ELSE Some([num |-> SumErrors(errors, 1), den |-> n]),
         latest  |-> LatestError(errors, Len(errors))]

---------------------------------------------------------------------------
(* fetch_kma_asos_today and kma_asos_hourly_scheduler, app.py lines 258-328 *)

\* A data line: its STN column, its first column as strptime reads it
\* (None: not a date), its TA, HM and PA columns; short: the line has fewer
\* columns than the header names.
DataLine(stn, tm, ta, hm, pa, short) ==
    [stn |-> stn, tm |-> tm, ta |-> ta, hm |-> hm, pa |-> pa, short |-> short]

\* 09:00 and 10:00
AsosT1 == 9 * 3600

AsosT2 == 10 * 3600

\* The data lines of the payloads of the model.
Payloads ==
    {<<DataLine("159", Some(AsosT1), "21.0", "40.0", "1013.0", FALSE)>>,
     <<DataLine("159", Some(AsosT1), "-999.0", "40.0", "-999", FALSE),
       DataLine("159", Some(AsosT2), "1.234", "-999.0", "1013.0", FALSE)>>,
     <<DataLine("159", Some(AsosT1), "x", "40.0", "1013.0", FALSE),
       DataLine("159", Some(AsosT2), "21.0", "40.0", "1013.0", FALSE)>>,
     <<DataLine("108", Some(AsosT1), "21.0", "40.0", "1013.0", FALSE),
       DataLine("159", Some(AsosT1), "1.234", "40.0", "-999.0", FALSE)>>,
     <<DataLine("159", None, "21.0", "40.0", "1013.0", FALSE),
       DataLine("159", Some(AsosT2), "1.234", "40.0", "1013.0", FALSE)>>,
     <<DataLine("159", Some(AsosT1), "21.0", "40.0", "1013.0", TRUE),
       DataLine("159", Some(AsosT2), "21.0", "-999", "1013.0", FALSE)>>,
     <<DataLine("159", Some(AsosT1), "-999.00", "40.0", "1013.0", FALSE)>>}

\* What the GET of line 274 and lines 275-290 can come to: an exception
\* (network, HTTP status, a header without a column), no header or no data
\* line, or data lines.
AsosResults ==
    {[kind |-> "fail"], [kind |-> "nothing"]}
    \cup {[kind |-> "lines", data_lines |-> pl] : pl \in Payloads}

\* def f(v), lines 292-293; raises where float(v) does.
fOk(v) == v \in {"", "-999.0", "-999"} \/ FloatOk(v)

f(v) == IF v \in {"", "-999.0", "-999"} THEN None ELSE Some(float(v))

\* Lines 298-302 go through without an exception for the line ln.
DataLineOk(ln) ==
    /\ ~ln.short
    /\ ln.tm # None
    /\ fOk(ln.ta) /\ fOk(ln.hm) /\ fOk(ln.pa)

\* Lines 305-309: the row of (KMA, ts) after the upsert of ta, hm and pa.
MergeKma(row, ta, hm, pa) ==
    [row EXCEPT !.temperature = IF ta # None THEN ta ELSE @,
                !.humidity    = IF hm # None THEN hm ELSE @,
                !.pressure    = IF pa # None THEN pa ELSE @]

\* fetch_kma_asos_today returns; the scheduler sleeps to the top of the hour
\* (5 s at least).
AsosReturn(outcome) ==
    /\ a_pc' = "sleep"
    /\ a_outcome' = outcome
    /\ a_wake' = now + Max(5, 3600 - (Minute(now) * 60 + Second(now)))

\* Lines 259-290.
AsosBeginOf(results) ==
    /\ a_pc = "begin"
    /\ IF env("KMA_AUTH_KEY", "") = ""
       THEN /\ AsosReturn("no_key")
            /\ UNCHANGED <<a_payload, a_next>>
       ELSE \E res \in results :
              IF res.kind = "lines"
              THEN /\ a_pc' = "rows"
                   /\ a_payload' = res.data_lines
                   /\ a_next' = 1
                   /\ a_outcome' = "running"
                   /\ UNCHANGED a_wake
              ELSE /\ AsosReturn(res.kind)
                   /\ a_payload' = <<>>
                   /\ a_next' = 1
    /\ UNCHANGED store
    /\ UNCHANGED notAsos

\* One pass of "for ln in data_lines" (lines 297-315), or, the lines done,
\* the return of line 317; an exception in the pass is caught at line 318.
AsosRow ==
    /\ a_pc = "rows"
    /\ IF a_next > Len(a_payload)
       THEN /\ AsosReturn("done")
            /\ UNCHANGED <<a_payload, a_next, store>>
       ELSE LET ln == a_payload[a_next]
            IN  IF ln.stn # "159"
                THEN /\ a_next' = a_next + 1
                     /\ UNCHANGED <<a_pc, a_payload, a_outcome, a_wake, store>>
                ELSE IF ~DataLineOk(ln)
                THEN /\ AsosReturn("fail")
                     /\ UNCHANGED <<a_payload, a_next, store>>
                ELSE LET ts == Get(ln.tm)
                         ta == f(ln.ta)
                         hm == f(ln.hm)
                         pa == f(ln.pa)
                     IN  IF HasRow("KMA", ts)
                         THEN /\ store' = ReplaceRow(FirstRow("KMA", ts),
                                              MergeKma(FirstRow("KMA", ts), ta, hm, pa))
                              /\ a_next' = a_next + 1
                              /\ UNCHANGED <<a_pc, a_payload, a_outcome, a_wake>>
                         ELSE IF uniq_source_ts("KMA", ts)
                         THEN /\ store' = AddRow(WeatherReading("KMA", ta, hm, pa, ts))
                              /\ a_next' = a_next + 1
                              /\ UNCHANGED <<a_pc, a_payload, a_outcome, a_wake>>
                         ELSE \* IntegrityError, caught at line 318
                              /\ AsosReturn("fail")
                              /\ UNCHANGED <<a_payload, a_next, store>>
    /\ UNCHANGED notAsos

\* The upsert of lines 297-315 at the grain of its database calls: the
\* parse of the line and the query of line 304 here, the commit of line 310
\* or 315 in AsosCommit.
AsosLookup ==
    /\ a_pc = "rows"
    /\ IF a_next > Len(a_payload)
       THEN /\ AsosReturn("done")
            /\ UNCHANGED <<a_payload, a_next, a_row>>
       ELSE LET ln == a_payload[a_next]
            IN  IF ln.stn # "159"
                THEN /\ a_next' = a_next + 1
                     /\ UNCHANGED <<a_pc, a_payload, a_outcome, a_wake, a_row>>
                ELSE IF ~DataLineOk(ln)
                THEN /\ AsosReturn("fail")
                     /\ UNCHANGED <<a_payload, a_next, a_row>>
                ELSE /\ a_row' = Lookup("KMA", Get(ln.tm))
                     /\ a_pc' = "commit"
                     /\ UNCHANGED <<a_payload, a_next, a_outcome, a_wake>>
    /\ UNCHANGED store
    /\ UNCHANGED <<now, SERVER_START_KST, resp, environ, arduinoVars, kma10Vars,
                   fillVars, callVars, k_row>>

AsosCommit ==
    /\ a_pc = "commit"
    /\ LET ln == a_payload[a_next]
           ts == Get(ln.tm)
           ta == f(ln.ta)
           hm == f(ln.hm)
           pa == f(ln.pa)
       IN  IF a_row # None /\ HasRow("KMA", ts)
           THEN /\ store' = ReplaceRow(FirstRow("KMA", ts),
                                       MergeKma(FirstRow("KMA", ts), ta, hm, pa))
                /\ a_next' = a_next + 1
                /\ a_pc' = "rows"
                /\ UNCHANGED <<a_payload, a_outcome, a_wake>>
           ELSE IF a_row = None /\ uniq_source_ts("KMA", ts)
           THEN /\ store' = AddRow(WeatherReading("KMA", ta, hm, pa, ts))
                /\ a_next' = a_next + 1
                /\ a_pc' = "rows"
                /\ UNCHANGED <<a_payload, a_outcome, a_wake>>
           ELSE /\ AsosReturn("store_error")
                /\ UNCHANGED <<a_payload, a_next, store>>
    /\ a_row' = None
    /\ UNCHANGED <<now, SERVER_START_KST, resp, environ, arduinoVars, kma10Vars,
                   fillVars, callVars, k_row>>

\* time.sleep is over: the next fetch_kma_asos_today.
AsosWake ==
    /\ a_pc = "sleep"
    /\ now >= a_wake
    /\ a_pc' = "begin"
    /\ UNCHANGED <<a_payload, a_next, a_outcome, a_wake, store>>
    /\ UNCHANGED notAsos

AsosBegin == AsosBeginOf(AsosResults)

---------------------------------------------------------------------------
(* The process: __main__, app.py lines 510-523 *)

Environ(baud, key, nx, auth) ==
    [ARDUINO_BAUD |-> baud, KMA_SERVICE_KEY |-> key, KMA_NX |-> nx, KMA_NY |-> "",
     KMA_AUTH_KEY |-> auth]

\* A row an earlier run of the program left for the minute the clock starts in.
EarlierRows ==
    {WeatherReading("Arduino", Some(21000), Some(40000), None, to_minute(ClockStart))}

InitThreads ==
    /\ s_pc = "start"
    /\ s_open = FALSE
    /\ s_line = <<>>
    /\ last_min = None
    /\ s_wake = ClockStart
    /\ k_pc = "begin"
    /\ k_fetches = 0
    /\ k_base = ClockStart
    /\ k_i = 0
    /\ k_retries = 0
    /\ k_outcome = "none"
    /\ k_requests = <<>>
    /\ k_bucket = <<>>
    /\ k_wrote = {}
    /\ k_wake = ClockStart
    /\ a_pc = "begin"
    /\ a_payload = <<>>
    /\ a_next = 1
    /\ a_outcome = "none"
    /\ a_wake = ClockStart
    /\ k_row = None
    /\ a_row = None

\* No call of a pure function is under way, no /api/latest-data answered.
InitNoCall ==
    /\ args = [fn |-> "none"]
    /\ ret = None
    /\ latest = NoResponse

InitIdleQuery ==
    /\ resp = NoResponse
    /\ ts_to_val = EmptyMap
    /\ timeline = <<>>
    /\ fill_out = <<>>
    /\ fill_done = FALSE
    /\ InitNoCall

InitProcess(envs) ==
    /\ now = ClockStart
    /\ SERVER_START_KST = Some(ClockStart)
    /\ store \in {SetToBag(S) : S \in SUBSET EarlierRows}
    /\ environ \in envs
    /\ InitThreads
    /\ InitIdleQuery

\* The Arduino thread alone with the clock.
InitArduino ==
    InitProcess({Environ("", "", "", ""), Environ("9600", "", "", ""),
                 Environ("fast", "", "", "")})

NextArduino ==
    Tick \/ ArduinoStart \/ ArduinoConnect \/ ArduinoRead \/ ArduinoRetry

SpecArduino == InitArduino /\ [][NextArduino]_vars

\* The serial device can fail until the clock stops, and stays available
\* from then on; the thread is scheduled again and again.
SerialCanFail == now < ClockStart + MaxTicks * 30

ArduinoConnectLive ==
    ArduinoConnectOf(IF SerialCanFail THEN BOOLEAN ELSE {TRUE})

ArduinoReadLive == ArduinoReadWhen(Lines, SerialCanFail)

NextArduinoLive ==
    Tick \/ ArduinoStart \/ ArduinoConnectLive \/ ArduinoReadLive \/ ArduinoRetry

SpecArduinoLive ==
    /\ InitArduino
    /\ [][NextArduinoLive]_vars
    /\ WF_vars(Tick)
    /\ WF_vars(ArduinoStart)
    /\ WF_vars(ArduinoConnectLive)
    /\ WF_vars(ArduinoReadLive)
    /\ WF_vars(ArduinoRetry)

\* The KMA10 thread alone with the clock.
InitKmaUltra ==
    InitProcess({Environ("", "key", "", ""), Environ("", "", "", ""),
                 Environ("", "key", "abc", "")})

NextKmaUltra ==
    Tick \/ KmaUltraBegin \/ KmaUltraRequest \/ KmaUltraUpsert \/ KmaUltraWake

SpecKmaUltra == InitKmaUltra /\ [][NextKmaUltra]_vars

\* The ASOS thread alone with the clock.
InitAsos == InitProcess({Environ("", "", "", "key"), Environ("", "", "", "")})

NextAsos == Tick \/ AsosBegin \/ AsosRow \/ AsosWake

SpecAsos == InitAsos /\ [][NextAsos]_vars

\* The three threads together, each fed from a part of its inputs.
FewLines == {<<"21.0", "40.0">>, <<"x", "40.0">>}

FewAttemptResults ==
    {[kind |-> "no_data"],
     [kind |-> "items",
      items |-> <<Item("same", "T1H", "21.0"), Item("same", "REH", "40.0")>>]}

FewAsosResults ==
    {[kind |-> "lines",
      data_lines |-> <<DataLine("159", Some(AsosT1), "x", "40.0", "1013.0", FALSE),
                       DataLine("159", Some(AsosT2), "21.0", "40.0", "1013.0", FALSE)>>],
     [kind |-> "lines",
      data_lines |-> <<DataLine("159", Some(AsosT2), "-999.0", "40.0", "1013.0", FALSE)>>]}

Init ==
    InitProcess({Environ("", "key", "", "key"), Environ("fast", "key", "abc", "key")})

Next ==
    \/ Tick
    \/ ArduinoStart \/ ArduinoConnect \/ ArduinoReadOf(FewLines) \/ ArduinoRetry
    \/ KmaUltraBegin \/ KmaUltraRequestOf(FewAttemptResults) \/ KmaUltraUpsert
    \/ KmaUltraWake
    \/ AsosBeginOf(FewAsosResults) \/ AsosRow \/ AsosWake

Spec == Init /\ [][Next]_vars

\* The three threads and the two read routes: a request is answered at any
\* point between the steps of the threads.
ServeLines == {<<"21.0", "40.0">>}

ServeAttemptResults ==
    {[kind |-> "items",
      items |-> <<Item("same", "T1H", "21.0"), Item("same", "REH", "40.0")>>]}

ServeAsosResults ==
    {[kind |-> "lines",
      data_lines |-> <<DataLine("159", Some(AsosT2), "21.0", "40.0", "1013.0", FALSE)>>]}

InitServe == InitProcess({Environ("", "key", "", "key")})

ServeChartData ==
    /\ resp = NoResponse
    /\ \E cat \in {"temperature", "pressure"} : ChartData(cat)

ServeLatestData ==
    /\ latest = NoResponse
    /\ LatestData

NextServe ==
    \/ Tick
    \/ ArduinoStart \/ ArduinoConnect \/ ArduinoReadOf(ServeLines) \/ ArduinoRetry
    \/ KmaUltraBegin \/ KmaUltraRequestOf(ServeAttemptResults) \/ KmaUltraUpsert
    \/ KmaUltraWake
    \/ AsosBeginOf(ServeAsosResults) \/ AsosRow \/ AsosWake
    \/ ServeChartData
    \/ ServeLatestData

SpecServe == InitServe /\ [][NextServe]_vars

\* The two KMA threads with their upserts in two steps, and /api/latest-data
\* read between them.
SplitAttemptResults ==
    {[kind |-> "items",
      items |-> <<Item("same", "T1H", "21.0"), Item("same", "REH", "40.0")>>],
     [kind |-> "items", items |-> <<Item("same", "T1H", "1.234")>>]}

SplitAsosResults ==
    {[kind |-> "lines",
      data_lines |-> <<DataLine("159", Some(AsosT2), "-999.0", "40.0", "-999", FALSE)>>],
     [kind |-> "lines",
      data_lines |-> <<DataLine("159", Some(AsosT2), "21.0", "-999", "1013.0", FALSE)>>]}

InitSplit == InitProcess({Environ("", "key", "", "key")})

NextSplit ==
    \/ Tick
    \/ KmaUltraBegin \/ KmaUltraRequestOf(SplitAttemptResults)
    \/ KmaUltraLookup \/ KmaUltraCommit \/ KmaUltraWake
    \/ AsosBeginOf(SplitAsosResults) \/ AsosLookup \/ AsosCommit \/ AsosWake
    \/ ServeLatestData

SpecSplit == InitSplit /\ [][NextSplit]_vars

\* The two KMA threads together: the upserts.
UpsertAttemptResults ==
    {[kind |-> "no_data"],
     [kind |-> "items",
      items |-> <<Item("same", "T1H", "21.0"), Item("same", "REH", "40.0")>>],
     [kind |-> "items", items |-> <<Item("same", "T1H", "1.234")>>],
     [kind |-> "items",
      items |-> <<Item("same", "REH", "1.234")>>]}

UpsertAsosResults ==
    {[kind |-> "lines",
      data_lines |-> <<DataLine("159", Some(AsosT2), "-999.0", "40.0", "-999", FALSE)>>],
     [kind |-> "lines",
      data_lines |-> <<DataLine("159", Some(AsosT2), "21.0", "-999", "1013.0", FALSE)>>],
     [kind |-> "lines",
      data_lines |-> <<DataLine("159", Some(AsosT2), "1.234", "40.0", "-999.0", FALSE)>>]}

InitKma == InitProcess({Environ("", "key", "", "key")})

NextKma ==
    \/ Tick
    \/ KmaUltraBegin \/ KmaUltraRequestOf(UpsertAttemptResults) \/ KmaUltraUpsert
    \/ KmaUltraWake
    \/ AsosBeginOf(UpsertAsosResults) \/ AsosRow \/ AsosWake

SpecKma == InitKma /\ [][NextKma]_vars

---------------------------------------------------------------------------
(* The inputs of the linear_fill check *)

\* The grid points 0, 600, ... an anchor or a label may sit on.
MaxSlots == 4

FillTimes == {600 * k : k \in 0..(MaxSlots - 1)}

\* 1.234, 10.0 and 20.0
FillVals == {1234, 10000, 20000}

FillMaps ==
    UNION {[D -> {None} \cup {Some(v) : v \in FillVals}] : D \in SUBSET FillTimes}

\* Label lists are ascending: ten_min_range builds them.
FillTimelines == {sorted(D) : D \in SUBSET FillTimes}

\* One map of FillMaps with a null anchor between two present ones, and
\* the labels around it.
NullBetweenMap == (0 :> Some(10000)) @@ (600 :> None) @@ (1800 :> Some(20000))

NullBetweenTimeline == <<0, 600, 1200, 1800>>

---------------------------------------------------------------------------
(* The inputs of the /api/chart_data check *)

\* 10:00:00
ChartT0 == 10 * 3600

\* 09:30, 09:50, 09:51 (the slot of 09:50 again) and 10:10
ChartKmaTimes == {ChartT0 - 1800, ChartT0 - 600, ChartT0 - 540, ChartT0 + 600}

\* A KMA10 row has a temperature or a humidity (fetch_kma_ultra_once skips
\* a timestamp with neither) and no pressure.
ChartKmaFields ==
    {<<None, Some(50000)>>, <<Some(10000), None>>, <<Some(20000), Some(60000)>>}

\* 10:01, 10:02 (the slot of 10:01 again) and 10:11
ChartArdTimes == {ChartT0 + 60, ChartT0 + 120, ChartT0 + 660}

ChartArdFields == {<<Some(1234), Some(40000)>>, <<Some(21000), Some(41000)>>}

\* The stores the chart query runs on: at most one row per (source, timestamp).
ChartStores ==
    {SetToBag({WeatherReading("KMA10", k[t][1], k[t][2], None, t) : t \in DOMAIN k}
              \cup {WeatherReading("Arduino", a[t][1], a[t][2], None, t) : t \in DOMAIN a}) :
        k \in UNION {[D -> ChartKmaFields] : D \in SUBSET ChartKmaTimes},
        a \in UNION {[D -> ChartArdFields] : D \in SUBSET ChartArdTimes}}

\* 10:06:40 and 10:20:30
ChartNows == {ChartT0 + 400, ChartT0 + 1230}

Categories == {"temperature", "humidity", "pressure", "wind"}

InitFill ==
    /\ ts_to_val \in FillMaps
    /\ timeline \in FillTimelines
    /\ fill_out = <<>>
    /\ fill_done = FALSE
    /\ now = ChartT0
    /\ store = EmptyBag
    /\ SERVER_START_KST = None
    /\ resp = NoResponse
    /\ environ = Environ("", "", "", "")
    /\ InitThreads
    /\ InitNoCall

InitChart ==
    /\ ts_to_val = NullBetweenMap
    /\ timeline = NullBetweenTimeline
    /\ fill_out = <<>>
    /\ fill_done = FALSE
    /\ now \in ChartNows
    /\ store \in ChartStores
    /\ SERVER_START_KST \in {None, Some(ChartT0)}
    /\ resp = NoResponse
    /\ environ = Environ("", "", "", "")
    /\ InitThreads
    /\ InitNoCall

\* Instants handed to ten_min_range: 09:59:30, 10:00:00, 10:09:59, 10:25:00,
\* 23:55:00 and 00:05:00 of the next day.
RangeInstants ==
    {10 * 3600 - 30, 10 * 3600, 10 * 3600 + 599, 10 * 3600 + 1500,
     24 * 3600 - 300, 24 * 3600 + 300}

\* No linear_fill call is waiting, no request has been answered.
InitQueryIdle ==
    /\ ts_to_val = EmptyMap
    /\ timeline = <<>>
    /\ fill_out = <<>>
    /\ fill_done = TRUE
    /\ SERVER_START_KST = None
    /\ resp = NoResponse
    /\ latest = NoResponse
    /\ environ = Environ("", "", "", "")
    /\ InitThreads

InitRange ==
    /\ args \in {[fn |-> "ten_min_range", start_dt |-> a, end_dt |-> b] :
                    a \in RangeInstants, b \in RangeInstants}
    /\ ret = None
    /\ now = ChartT0
    /\ store = EmptyBag
    /\ InitQueryIdle

\* The series handed to ComputeErrors have MaxSeries points at most.
MaxSeries == 2

\* null, 0, 1.234, 20.0 and 21.0
SeriesVals == {None, Some(0), Some(1234), Some(20000), Some(21000)}

SeriesPairs ==
    UNION {{[fn |-> "ComputeErrors", sensorSeries |-> sv, referenceSeries |-> rv] :
               sv \in [1..n -> SeriesVals], rv \in [1..n -> SeriesVals]} :
           n \in 0..MaxSeries}

InitErrors ==
    /\ args \in SeriesPairs
    /\ ret = None
    /\ now = ChartT0
    /\ store = EmptyBag
    /\ InitQueryIdle

\* 00:10 of the day after the day of ChartT0
LatestNow == 24 * 3600 + 600

\* 23:50 of the day before, 00:00 and 00:05 of the day
LatestTimes == {24 * 3600 - 600, 24 * 3600, 24 * 3600 + 300}

\* One row per source and instant, told apart by its temperature.
LatestRows ==
    {WeatherReading(src, Some(1000 * ((t \div 300) % 100) + Len(src)), Some(40000),
                    None, t) :
        src \in {"Arduino", "KMA10", "KMA"}, t \in LatestTimes}

InitLatest ==
    /\ args = [fn |-> "none"]
    /\ ret = None
    /\ now = LatestNow
    /\ store \in {SetToBag(S) : S \in SUBSET LatestRows}
    /\ InitQueryIdle

InitQuery == InitFill \/ InitChart

InitCalls == InitRange \/ InitErrors \/ InitLatest

CallTenMinRange ==
    /\ args.fn = "ten_min_range"
    /\ ret = None
    /\ ret' = Some(ten_min_range(args.start_dt, args.end_dt))
    /\ UNCHANGED <<now, store, SERVER_START_KST, resp, environ, args, latest>>
    /\ UNCHANGED <<arduinoVars, kma10Vars, asosVars, fillVars, rowVars>>

CallComputeErrors ==
    /\ args.fn = "ComputeErrors"
    /\ ret = None
    /\ ret' = Some(ComputeErrors(args.sensorSeries, args.referenceSeries))
    /\ UNCHANGED <<now, store, SERVER_START_KST, resp, environ, args, latest>>
    /\ UNCHANGED <<arduinoVars, kma10Vars, asosVars, fillVars, rowVars>>

HandleLatestData ==
    /\ now = LatestNow
    /\ latest = NoResponse
    /\ LatestData

CallLinearFill ==
    /\ ~fill_done
    /\ fill_out' = linear_fill(ts_to_val, timeline)
    /\ fill_done' = TRUE
    /\ UNCHANGED <<ts_to_val, timeline, now, store, SERVER_START_KST, resp, environ>>
    /\ UNCHANGED <<arduinoVars, kma10Vars, asosVars, callVars, rowVars>>

HandleChartData ==
    /\ resp = NoResponse
    /\ now \in ChartNows
    /\ \E cat \in Categories : ChartData(cat)

NextQuery == CallLinearFill \/ HandleChartData

NextCalls == CallTenMinRange \/ CallComputeErrors \/ HandleLatestData

SpecQuery == InitQuery /\ [][NextQuery]_vars

\* ten_min_range, ComputeErrors and /api/latest-data, each on its inputs.
SpecCalls == InitCalls /\ [][NextCalls]_vars

---------------------------------------------------------------------------
(* Properties of the collectors *)

Fields == {"temperature", "humidity", "pressure"}

ArduinoRows == {r \in Rows : r.source = "Arduino"}

\* C1: in every reachable state of the store, whatever the interleaving of
\* the inserts and upserts of the three collectors, each (source, timestamp)
\* pair has at most one stored WeatherReading.
C1_Unique ==
    \A r1 \in Rows :
        /\ CopiesIn(r1, store) = 1
        /\ \A r2 \in Rows :
               (r1.source = r2.source /\ r1.timestamp = r2.timestamp) => r1 = r2

\* The three collectors have written, and the sensor thread has met a row of
\* its minute that an earlier run had left.
C1_Witness ==
    /\ \A src \in {"Arduino", "KMA10", "KMA"} : \E r \in Rows : r.source = src
    /\ s_pc = "read"
    /\ s_line = <<"21.0", "40.0">>
    /\ last_min = None
    /\ HasRow("Arduino", to_minute(now))
    /\ k_fetches = 2
    /\ a_outcome = "done"

\* What an upsert leaves of the stored value old for the incoming value inc.
Kept(old, inc) == IF inc # None THEN inc ELSE old

\* The values the KMA10 thread is about to upsert, when it is about to.
Kma10Pending == k_pc = "upsert" /\ k_bucket # <<>>

Kma10Incoming ==
    [timestamp |-> Head(k_bucket)[1], temperature |-> Head(k_bucket)[2],
     humidity |-> Head(k_bucket)[3], pressure |-> None]

\* The values the hourly thread is about to upsert, when it is about to.
KmaPending ==
    /\ a_pc = "rows"
    /\ a_next <= Len(a_payload)
    /\ a_payload[a_next].stn = "159"
    /\ DataLineOk(a_payload[a_next])

KmaIncoming ==
    [timestamp |-> Get(a_payload[a_next].tm),
     temperature |-> f(a_payload[a_next].ta),
     humidity |-> f(a_payload[a_next].hm),
     pressure |-> f(a_payload[a_next].pa)]

\* The row of (src, inc.timestamp), if there was one, holds after the step
\* what the upsert of inc makes of it.
UpsertOf(src, inc) ==
    \A r \in Rows :
        (r.source = src /\ r.timestamp = inc.timestamp) =>
            \E q \in Rows' :
                /\ q.source = src
                /\ q.timestamp = inc.timestamp
                /\ \A fld \in Fields : q[fld] = Kept(r[fld], inc[fld])

\* C2: a KMA10 or KMA upsert never clears a field that was set: a non-null
\* temperature, humidity or pressure of a stored record stays non-null under
\* every later upsert to its key; an incoming null leaves the stored value
\* as it was, an incoming non-null value overwrites it.
C2_UpsertKeeps ==
    [][ /\ \A r \in Rows :
               r.source \in {"KMA10", "KMA"} =>
                   \E q \in Rows' :
                       /\ q.source = r.source
                       /\ q.timestamp = r.timestamp
                       /\ \A fld \in Fields : r[fld] # None => q[fld] # None
        /\ (Kma10Pending /\ k_bucket' = Tail(k_bucket)
              /\ ~(Kma10Incoming.temperature = None /\ Kma10Incoming.humidity = None))
             => UpsertOf("KMA10", Kma10Incoming)
        /\ (KmaPending /\ a_next' = a_next + 1) => UpsertOf("KMA", KmaIncoming)
      ]_vars

\* A KMA10 record whose temperature a later upsert overwrote while its null
\* humidity left the stored one, and the same of an hourly record and its
\* pressure.
C2_Witness ==
    /\ \E r \in Rows :
          /\ r.source = "KMA10"
          /\ r.temperature = Some(1234)
          /\ r.humidity = Some(40000)
    /\ \E r \in Rows :
          /\ r.source = "KMA"
          /\ r.timestamp = AsosT2
          /\ r.temperature = Some(1234)
          /\ r.humidity = Some(40000)
          /\ r.pressure = Some(1013000)

\* C3: of the sensor samples received in one minute, a minute an earlier run
\* left a row for included, only the first committed insert survives: a later
\* sample of the minute is discarded or its insert meets the duplicate key and
\* is rolled back; it changes nothing in the store and the read loop goes on.
C3_FirstInsertSurvives ==
    [][ /\ \A r \in ArduinoRows : r \in Rows' /\ CopiesIn(r, store') = 1
        /\ \A q \in Rows' :
               (q.source = "Arduino" /\ q \notin Rows) =>
                   /\ q.timestamp = to_minute(now)
                   /\ ~\E r \in ArduinoRows : r.timestamp = q.timestamp
        /\ (s_pc = "read" /\ s_line' # s_line /\ HasRow("Arduino", to_minute(now)))
             => (store' = store /\ s_pc' = "read")
      ]_vars

\* A sample of the minute of the row of the earlier run has been read: its
\* insert was rolled back, the row is as it was and the loop is still reading.
C3_Witness ==
    /\ s_pc = "read"
    /\ s_line = <<"1.234", "40.0", "1013.0">>
    /\ last_min = None
    /\ to_minute(now) = to_minute(ClockStart)
    /\ Rows = EarlierRows

\* C12: after any sequence of hourly cycles no stored KMA record has a
\* temperature, humidity or pressure of -999: a sentinel of the payload is
\* stored as null, and leaves the field of an existing record as it was.
C12_Original ==
    \A r \in Rows :
        r.source = "KMA" => \A fld \in Fields : r[fld] # Some(-999000)

\* What C20 says besides the order of closing and waiting: the wait is of
\* 5 s, the thread leaves it only to connect again, with the port closed;
\* last_min is kept while the thread is not reading; a sample is accepted
\* only for a minute other than last_min, which it becomes.
RetryKeepsMinute ==
    [][ /\ (s_pc # "sleep" /\ s_pc' = "sleep") => s_wake' = now + 5
        /\ (s_pc = "sleep" /\ s_pc' # "sleep") =>
               (s_pc' = "connect" /\ ~s_open' /\ now >= s_wake)
        /\ s_pc \in {"sleep", "connect"} => last_min' = last_min
        /\ \A q \in ArduinoRows' :
               q \notin ArduinoRows =>
                   (Some(q.timestamp) # last_min /\ last_min' = Some(q.timestamp))
      ]_vars

\* After a failure the thread comes to read again, given a device that
\* stays available in the end.
Reconnects == (s_pc = "sleep") ~> (s_pc = "read" /\ s_open)

\* C20 as stated: after a serial open or read failure the collector closes
\* the port, then waits 5 s and connects again, so the port is closed while
\* it waits; it comes to read again and keeps last_min.
C20_Original ==
    /\ [](s_pc = "sleep" => ~s_open)
    /\ RetryKeepsMinute
    /\ Reconnects

\* C20 (amended): after a serial open or read failure the collector waits
\* 5 s, then closes the port if it is open, and connects again, any number of
\* times; with a device that stays available in the end it comes to read
\* again; last_min is kept across the reconnects, so no second sample of the
\* minute is accepted.
C20_RetryForever ==
    /\ RetryKeepsMinute
    /\ Reconnects
    /\ [](s_open => s_pc \in {"read", "sleep"})

\* A sample of 09:59 was accepted, a read failed at 09:59:00, and the thread
\* reads again at 09:59:30 with last_min as it was and one row of the minute.
C20_Witness ==
    /\ s_pc = "read"
    /\ s_open
    /\ s_wake = ClockStart + 5
    /\ now = ClockStart + 30
    /\ last_min = Some(to_minute(ClockStart))
    /\ s_line = <<"1.234", "40.0", "1013.0">>
    /\ \E r \in ArduinoRows : r.timestamp = to_minute(ClockStart)
                               /\ r.temperature = Some(21000)
    /\ Cardinality(ArduinoRows) = 1

\* C4: every failure inside a poll cycle of one of the three collector loops
\* is caught and the loop goes on: no collector thread is ever terminated.
C4_Original ==
    /\ s_pc # "terminated"
    /\ k_pc # "terminated"
    /\ a_pc # "terminated"

\* C5: a NearRealTime cycle requests its candidate slots newest first, from
\* the most recent completed 10-minute slot back through at most 5 earlier
\* ones, 6 at most; once a slot has given data no earlier slot is requested,
\* and the cycle writes from the answer of one slot at most.
C5_FirstHitWins ==
    /\ [](/\ Len(k_requests) <= 6
          /\ \A n \in 1..Len(k_requests) : k_requests[n] = k_base - 600 * (n - 1)
          /\ Cardinality(k_wrote) <= 1
          /\ k_wrote # {} => k_wrote = {k_requests[Len(k_requests)]}
          /\ k_outcome = "data" => k_pc # "request")
    /\ [][(k_pc = "begin" /\ k_pc' = "request") =>
             /\ k_base' % 600 = 0
             /\ k_base' <= now - 60
             /\ now - 60 < k_base' + 600]_vars

\* Two slots gave nothing, the third gave data and was written: the cycle is
\* over.
C5_Witness ==
    /\ k_pc = "sleep"
    /\ Len(k_requests) = 3
    /\ k_wrote = {k_requests[3]}
    /\ k_outcome = "data"
    /\ HasRow("KMA10", k_requests[3])

\* C6 as stated: a request that failed transiently with its retries used up
\* ends the cycle, no further request is issued before the next cycle.
C6_Original ==
    k_outcome = "net_fail" => k_pc \in {"sleep", "begin"}

\* C6: a request is retried 3 times at most; when it has failed transiently
\* with its retries used up nothing is written for its slot, and the cycle
\* goes on to the next earlier candidate slot as after any other failure; it
\* ends without a further request only when that slot was the last of the 6.
C6_FallbackAfterRetries ==
    /\ [](/\ k_retries \in 0..3
          /\ k_outcome = "net_fail" =>
                IF k_i < 6 THEN k_pc = "request" ELSE k_pc \in {"sleep", "begin"})
    /\ [][(k_outcome' = "net_fail" /\ k_i' # k_i) =>
             /\ k_retries = 3
             /\ k_i' = k_i + 1
             /\ store' = store]_vars

\* The request of the newest slot failed with its retries used up, and the
\* request of the slot before it is being retried.
C6_Witness ==
    /\ k_outcome = "net_fail"
    /\ k_pc = "request"
    /\ Len(k_requests) = 2
    /\ k_retries = 2

\* C7: malformed input drops the offending record alone.  Hourly: when the
\* cycle is over, every well-formed row of the station in its payload has
\* been upserted, unparsable rows of the payload or not.  Sensor: a malformed
\* line changes no sensor row and the loop reads on.
C7_Original ==
    /\ []((a_pc = "sleep" /\ a_outcome \in {"done", "fail"}) =>
             \A n \in 1..Len(a_payload) :
                 (a_payload[n].stn = "159" /\ DataLineOk(a_payload[n])) =>
                     HasRow("KMA", Get(a_payload[n].tm)))
    /\ [][(s_pc = "read" /\ s_pc' = "read" /\ ~LineOk(s_line')) =>
             ArduinoRows' = ArduinoRows]_vars

---------------------------------------------------------------------------
(* Properties of linear_fill *)

FillKeys == DOMAIN ts_to_val

Earliest == CHOOSE x \in FillKeys : \A y \in FillKeys : x <= y

Latest == CHOOSE x \in FillKeys : \A y \in FillKeys : x >= y

\* The adjacent anchors around a label t with Earliest <= t < Latest.
PrevAnchor(t) ==
    CHOOSE x \in FillKeys : x <= t /\ \A y \in FillKeys : y <= t => y <= x

NextAnchor(t) ==
    CHOOSE x \in FillKeys : x > t /\ \A y \in FillKeys : y > t => x <= y

Interior(t) == FillKeys # {} /\ Earliest < t /\ t < Latest

Abs(x) == IF x < 0 THEN -x ELSE x

\* x is num/den thousandths rounded to 2 decimals: a whole number of
\* hundredths, nearest to num/den, the even one on a tie.
IsRounded2(x, num, den) ==
    /\ x % 10 = 0
    /\ 2 * Abs(x * den - num) <= 10 * den
    /\ (2 * Abs(x * den - num) = 10 * den => (x \div 10) % 2 = 0)

\* fill_out[k] is v1 + ((t - t1)/(t2 - t1)) * (v2 - v1) rounded to 2 decimals
\* for the adjacent anchors t1 <= t < t2 around the label timeline[k].
InterpolatedAt(k) ==
    LET t  == timeline[k]
        t1 == PrevAnchor(t)
        t2 == NextAnchor(t)
        v1 == ts_to_val[t1]
        v2 == ts_to_val[t2]
    IN  (v1 # None /\ v2 # None) =>
            /\ fill_out[k] # None
            /\ IsRounded2(Get(fill_out[k]),
                          Get(v1) * (t2 - t1) + (t - t1) * (Get(v2) - Get(v1)),
                          t2 - t1)

\* Anchors 0 -> 10.0 and 1200 -> 20.0 (20 minutes apart), label at 600.
ExampleMap == (0 :> Some(10000)) @@ (1200 :> Some(20000))

ExampleHolds ==
    ts_to_val = ExampleMap =>
        \A k \in 1..Len(timeline) : timeline[k] = 600 => fill_out[k] = Some(15000)

\* C8: for a non-empty anchor map and an ascending timeline, a label at or
\* before the earliest anchor gets exactly the earliest anchor's value, and a
\* label at or after the latest anchor exactly the latest anchor's value
\* (unchanged: no rounding, no interpolation).
C8_EdgeClamp ==
    (fill_done /\ FillKeys # {}) =>
        \A k \in 1..Len(timeline) :
            /\ timeline[k] <= Earliest => fill_out[k] = ts_to_val[Earliest]
            /\ (timeline[k] >= Latest /\ timeline[k] > Earliest)
                   => fill_out[k] = ts_to_val[Latest]

\* A call has returned where a label before the earliest anchor got its
\* unrounded value 1.234 and a label after a different latest anchor got
\* that one's.
C8_Witness ==
    /\ fill_done
    /\ FillKeys # {}
    /\ Earliest # Latest
    /\ ts_to_val[Earliest] = Some(1234)
    /\ ts_to_val[Latest] = Some(1234)
    /\ \E k \in 1..Len(timeline) :
           timeline[k] < Earliest /\ fill_out[k] = Some(1234)
    /\ \E k \in 1..Len(timeline) :
           timeline[k] > Latest /\ fill_out[k] = Some(1234)

\* C9 (amended): for every label strictly between the earliest and the latest
\* anchor, with t1 <= t < t2 the adjacent anchors around it and both values
\* present, linear_fill returns v1 + ((t - t1)/(t2 - t1)) * (v2 - v1) rounded
\* to 2 decimals; anchors 0 -> 10.0 and 20 min -> 20.0 give exactly 15.0 at
\* the label 10 min; a label that coincides with an interior anchor returns
\* that anchor's value rounded to 2 decimals when it and the next anchor are
\* present.
C9_Interpolation ==
    fill_done =>
        /\ \A k \in 1..Len(timeline) : Interior(timeline[k]) => InterpolatedAt(k)
        /\ ExampleHolds
        /\ \A k \in 1..Len(timeline) :
               (/\ Interior(timeline[k])
                /\ timeline[k] \in FillKeys
                /\ ts_to_val[timeline[k]] # None
                /\ ts_to_val[NextAnchor(timeline[k])] # None)
               => /\ fill_out[k] # None
                  /\ IsRounded2(Get(fill_out[k]), Get(ts_to_val[timeline[k]]), 1)

\* A call has returned that gave the label on the interior anchor 1.234 the
\* rounded 1.23, and the label halfway between 1.234 and 10.0 (5.617) the
\* rounded 5.62.
C9_Witness ==
    /\ fill_done
    /\ ts_to_val = (0 :> Some(1234)) @@ (600 :> Some(1234)) @@ (1800 :> Some(10000))
    /\ timeline = <<600, 1200>>
    /\ fill_out = <<Some(1230), Some(5620)>>

\* C9 as stated: the interpolation formula, the example, and a label that
\* coincides with an interior anchor returns that anchor's value.
C9_Original ==
    fill_done =>
        /\ \A k \in 1..Len(timeline) : Interior(timeline[k]) => InterpolatedAt(k)
        /\ ExampleHolds
        /\ \A k \in 1..Len(timeline) :
               (Interior(timeline[k]) /\ timeline[k] \in FillKeys)
               => fill_out[k] = ts_to_val[timeline[k]]

---------------------------------------------------------------------------
(* Null propagation: linear_fill alone, and the reference series of
   /api/chart_data *)

\* linear_fill alone: a label strictly between the earliest and the latest
\* anchor whose bounding anchors t1 <= t < t2 include a null one gets null.
NullBlocksFill ==
    fill_done =>
        \A k \in 1..Len(timeline) :
            (/\ Interior(timeline[k])
             /\ \/ ts_to_val[PrevAnchor(timeline[k])] = None
                \/ ts_to_val[NextAnchor(timeline[k])] = None)
            => fill_out[k] = None

\* The reference rows /api/chart_data reads for the response in resp.
ChartKmaRecs == FilterBetween("KMA10", ChartStart - 7200, now)

RecSlots == {kst_naive_10min_floor(r.timestamp) : r \in ChartKmaRecs}

\* The reference rows bounding the label t: those of the last slot at or
\* before t and those of the first slot after it.
BoundingRecs(t) ==
    {r \in ChartKmaRecs :
        LET s == kst_naive_10min_floor(r.timestamp)
        IN  \/ s <= t /\ \A u \in RecSlots : u <= t => u <= s
            \/ s > t /\ \A u \in RecSlots : u > t => s <= u}

\* t lies between two slots that hold reference rows.
Intermediate(t) == (\E u \in RecSlots : u <= t) /\ (\E u \in RecSlots : u > t)

\* C10 as stated: in linear_fill and in the reference series of
\* /api/chart_data alike, a label bounded by a reference record whose value
\* for the category is null gets null.
C10_Original ==
    /\ NullBlocksFill
    /\ resp.status = 200 =>
           \A k \in 1..Len(resp.labels_dt) :
               (/\ Intermediate(resp.labels_dt[k])
                /\ \E r \in BoundingRecs(resp.labels_dt[k]) : getattr(r, resp.cat) = None)
               => resp.kma_values[k] = None

\* C10 (amended): for linear_fill alone, a label whose bounding anchors
\* include a null one gets null.  In /api/chart_data the reference rows
\* whose value for the category is null are left out of the anchors, so they
\* never block: every reference value of the response is non-null as soon as
\* one row of the lookback window has a value for the category, and null
\* when none has.
C10_NullPropagation ==
    /\ NullBlocksFill
    /\ resp.status = 200 =>
           \A k \in 1..Len(resp.labels_dt) :
               (resp.kma_values[k] = None)
                   <=> (\A r \in ChartKmaRecs : getattr(r, resp.cat) = None)

\* linear_fill has returned null for the label 10 min after the null anchor
\* of NullBetweenMap, and /api/chart_data has answered with a value at the
\* label 09:50 although the row of 09:50 has no temperature (the rows of
\* 09:30 and 10:10 have one).
C10_Witness ==
    /\ fill_done
    /\ ts_to_val = NullBetweenMap
    /\ timeline = NullBetweenTimeline
    /\ fill_out = <<Some(10000), None, None, Some(20000)>>
    /\ resp.status = 200
    /\ resp.cat = "temperature"
    /\ \E r \in ChartKmaRecs : r.timestamp = ChartT0 - 600 /\ r.temperature = None
    /\ \A r \in ChartKmaRecs : r.timestamp # ChartT0 - 540
    /\ \E r \in ChartKmaRecs : r.timestamp = ChartT0 - 1800 /\ r.temperature = Some(10000)
    /\ \E r \in ChartKmaRecs : r.timestamp = ChartT0 + 600 /\ r.temperature = Some(20000)
    /\ \E k \in 1..Len(resp.labels_dt) :
           resp.labels_dt[k] = ChartT0 - 600 /\ resp.kma_values[k] = Some(15000)

---------------------------------------------------------------------------
(* Properties of /api/chart_data *)

\* C11: every successful /api/chart_data response has 2 labels at least,
\* whatever the instant, the server start and the store, with a sensor record
\* since the session start or without one.
C11_Original ==
    resp.status = 200 => Len(resp.labels) >= 2

\* The sensor rows /api/chart_data reads for the response in resp.
ChartArdRecs == FilterBetween("Arduino", ChartStart, now)

\* The rows of S that floor to the 10-minute slot t.
InSlot(S, t) == {r \in S : kst_naive_10min_floor(r.timestamp) = t}

\* The row of the non-empty set S with the greatest timestamp.
LastOf(S) == CHOOSE r \in S : \A q \in S : q.timestamp <= r.timestamp

\* C17: the sensor value of a label is the category field of the sensor
\* record with the greatest timestamp among those of the window that floor to
\* the slot of the label, and null when the window has none; it is never
\* interpolated from the neighbouring slots.
C17_SensorBucketed ==
    resp.status = 200 =>
        /\ Len(resp.arduino_values) = Len(resp.labels_dt)
        /\ \A k \in 1..Len(resp.labels_dt) :
               LET S == InSlot(ChartArdRecs, resp.labels_dt[k])
               IN  resp.arduino_values[k] =
                       IF S = {} THEN None ELSE getattr(LastOf(S), resp.cat)

\* The rows of 10:01, 10:02 and 10:11 with 1.234, 21.0 and 1.234: the labels
\* 10:00, 10:10 and 10:20 get 21.0 (the row of 10:02), 1.234 and null.
C17_Witness ==
    /\ resp.status = 200
    /\ resp.cat = "temperature"
    /\ now = ChartT0 + 1230
    /\ \E r \in Rows : r.source = "Arduino" /\ r.timestamp = ChartT0 + 60
                        /\ r.temperature = Some(1234)
    /\ \E r \in Rows : r.source = "Arduino" /\ r.timestamp = ChartT0 + 120
                        /\ r.temperature = Some(21000)
    /\ \E r \in Rows : r.source = "Arduino" /\ r.timestamp = ChartT0 + 660
                        /\ r.temperature = Some(1234)
    /\ resp.labels_dt = <<ChartT0, ChartT0 + 600, ChartT0 + 1200>>
    /\ resp.arduino_values = <<Some(21000), Some(1234), None>>

\* The slots that give an anchor: those of a reference row with a value for
\* the category.
ValuedRecs == {r \in ChartKmaRecs : getattr(r, resp.cat) # None}

AnchorSlots == {kst_naive_10min_floor(r.timestamp) : r \in ValuedRecs}

\* What linear_fill shows at a label that is the anchor slot t with value v:
\* v itself at the first or last anchor, v rounded to 2 decimals between.
ShownAt(t, v) ==
    IF (\A u \in AnchorSlots : t <= u) \/ (\A u \in AnchorSlots : u <= t)
    THEN v
    ELSE Some(round2(Get(v), 1))

\* C18 as stated: of the reference records of one slot the later one gives
\* the anchor, whether its value for the category is null or not: the label
\* of the slot shows the value of the later record, null when that is null.
C18_Original ==
    resp.status = 200 =>
        \A k \in 1..Len(resp.labels_dt) :
            LET S == InSlot(ChartKmaRecs, resp.labels_dt[k])
            IN  Cardinality(S) >= 2 =>
                    LET v == getattr(LastOf(S), resp.cat)
                    IN  resp.kma_values[k] =
                            IF v = None THEN None ELSE ShownAt(resp.labels_dt[k], v)

\* C18 (amended): of the reference records of one slot that have a value for
\* the category, the later one gives the anchor; a record whose value is
\* null is passed over, so an earlier value of the slot stays.
C18_LaterValueWins ==
    resp.status = 200 =>
        \A k \in 1..Len(resp.labels_dt) :
            LET S == InSlot(ValuedRecs, resp.labels_dt[k])
            IN  S # {} =>
                    resp.kma_values[k] =
                        ShownAt(resp.labels_dt[k], getattr(LastOf(S), resp.cat))

\* The rows of 09:50 and 09:51 have temperatures 10.0 and 20.0, and the
\* label 09:50 shows 20.0.
C18_Witness ==
    /\ resp.status = 200
    /\ resp.cat = "temperature"
    /\ \E r \in ChartKmaRecs : r.timestamp = ChartT0 - 600 /\ r.temperature = Some(10000)
    /\ \E r \in ChartKmaRecs : r.timestamp = ChartT0 - 540 /\ r.temperature = Some(20000)
    /\ \E k \in 1..Len(resp.labels_dt) :
           resp.labels_dt[k] = ChartT0 - 600 /\ resp.kma_values[k] = Some(20000)

---------------------------------------------------------------------------
(* Properties of /api/latest-data, ComputeErrors and ten_min_range *)

\* The side of a response is the row r, or all null for no row.
SideIs(side, S) ==
    IF S = {} THEN side = [temperature |-> None, humidity |-> None, pressure |-> None]
    ELSE \E r \in S :
            /\ \A q \in S : q.timestamp <= r.timestamp
            /\ side = [temperature |-> r.temperature, humidity |-> r.humidity,
                       pressure |-> r.pressure]

\* C13: /api/latest-data gives, for the reference side and the sensor side
\* alike, the record with the greatest timestamp among those at or after the
\* start of the current day, and all null for a side with no record of the
\* day.
C13_Original ==
    latest.status = 200 =>
        /\ SideIs(latest.kma, {r \in Rows : /\ r.source \in {"KMA10", "KMA"}
                                             /\ r.timestamp >= DayStart(now)})
        /\ SideIs(latest.arduino, {r \in Rows : /\ r.source = "Arduino"
                                                 /\ r.timestamp >= DayStart(now)})

ErrorsCalled == args.fn = "ComputeErrors" /\ ret # None

\* The indices of the non-null errors returned.
NonNull == {k \in 1..Len(Get(ret).errors) : Get(ret).errors[k] # None}

\* The sum of the errors e[k] over the indices k of K.
RECURSIVE SumOver(_, _)
SumOver(e, K) ==
    IF K = {} THEN 0
    ELSE LET k == CHOOSE j \in K : TRUE
         IN  Get(e[k]) + SumOver(e, K \ {k})

\* C14: the error of an index is null when the sensor value or the reference
\* value is null or the reference is zero, and |sensor - reference| /
\* |reference| * 100 rounded to 2 decimals otherwise (21.0 against 20.0 gives
\* 5.0); the average is the mean of the non-null errors, latest is the last
\* of them, and both are null when there is none.
C14_ComputeErrors ==
    ErrorsCalled =>
        LET sv == args.sensorSeries
            rv == args.referenceSeries
            e  == Get(ret).errors
        IN  /\ Len(e) = Len(sv)
            /\ \A k \in 1..Len(sv) :
                   IF sv[k] = None \/ rv[k] = None \/ rv[k] = Some(0)
                   THEN e[k] = None
                   ELSE /\ e[k] # None
                        /\ Get(e[k]) >= 0
                        /\ IsRounded2(Get(e[k]),
                                      100000 * Abs(Get(sv[k]) - Get(rv[k])),
                                      Abs(Get(rv[k])))
                        /\ (sv[k] = Some(21000) /\ rv[k] = Some(20000))
                              => e[k] = Some(5000)
            /\ IF NonNull = {}
               THEN Get(ret).average = None /\ Get(ret).latest = None
               ELSE /\ Get(ret).average # None
                    /\ Get(Get(ret).average).den = Cardinality(NonNull)
                    /\ Get(Get(ret).average).num = SumOver(e, NonNull)
                    /\ \E k \in NonNull :
                           /\ \A j \in NonNull : j <= k
                           /\ Get(ret).latest = e[k]

\* Sensor 21.0 and 1.234 against reference 20.0 and 0: errors 5.0 and null,
\* average 5.0, latest 5.0.
C14_Witness ==
    /\ ErrorsCalled
    /\ args.sensorSeries = <<Some(21000), Some(1234)>>
    /\ args.referenceSeries = <<Some(20000), Some(0)>>
    /\ Get(ret).errors = <<Some(5000), None>>
    /\ Get(ret).average = Some([num |-> 5000, den |-> 1])
    /\ Get(ret).latest = Some(5000)

\* C16: the grid of ten_min_range(start, end) is strictly ascending, each
\* element on a 10-minute boundary, neighbours 10 minutes apart, the first
\* the 10-minute floor of start and the last that of end; with start <= end
\* it has a point at least, across an hour or a day rollover too.
C16_Grid ==
    (args.fn = "ten_min_range" /\ ret # None) =>
        LET g == Get(ret)
        IN  /\ \A k \in 1..Len(g) : g[k] % 600 = 0
            /\ \A k \in 1..(Len(g) - 1) : g[k + 1] = g[k] + 600
            /\ g # <<>> =>
                   /\ g[1] <= args.start_dt /\ args.start_dt < g[1] + 600
                   /\ g[Len(g)] <= args.end_dt /\ args.end_dt < g[Len(g)] + 600
            /\ args.start_dt <= args.end_dt => Len(g) >= 1

\* From 23:55:00 to 00:05:00 of the next day: 23:50 and 00:00.
C16_Witness ==
    /\ args.fn = "ten_min_range"
    /\ args.start_dt = 24 * 3600 - 300
    /\ args.end_dt = 24 * 3600 + 300
    /\ ret = Some(<<24 * 3600 - 600, 24 * 3600>>)

---------------------------------------------------------------------------
(* Properties of the read side among the collectors *)

\* C19: answering /api/chart_data and /api/latest-data, for any category
\* and store and at any point of the interleaving of the collectors, leaves
\* every stored record as it was, and adds and deletes none: a step that
\* changes the store is a write of one of the three collectors.
C19_ReadOnly ==
    [][ /\ (resp' # resp \/ latest' # latest) => store' = store
        /\ store' # store =>
               \/ last_min' # last_min
               \/ k_bucket' # k_bucket
               \/ a_next' # a_next
      ]_vars

\* Both routes have answered from a store the three collectors had written
\* to, the hourly thread being in the middle of its rows.
C19_Witness ==
    /\ resp.status = 200
    /\ \E k \in 1..Len(resp.arduino_values) : resp.arduino_values[k] # None
    /\ \E k \in 1..Len(resp.kma_values) : resp.kma_values[k] # None
    /\ latest.status = 200
    /\ latest.kma.temperature # None
    /\ latest.arduino.temperature # None
    /\ \A src \in {"Arduino", "KMA10", "KMA"} : \E r \in Rows : r.source = src
    /\ a_pc = "rows"

---------------------------------------------------------------------------
(* Properties of the upserts taken in two steps *)

\* The values the thread is about to commit and the key they go to.
Kma10Committing ==
    [timestamp |-> Head(k_bucket)[1], temperature |-> Head(k_bucket)[2],
     humidity |-> Head(k_bucket)[3], pressure |-> None]

\* row is what the table holds for the key (src, ts): the row, or None.
IsCurrent(row, src, ts) ==
    IF HasRow(src, ts) THEN row # None /\ Get(row) \in Rows /\ Get(row).source = src
                            /\ Get(row).timestamp = ts
    ELSE row = None

\* After the step the table holds for the key of inc every non-null field
\* of inc, and for the others what it held before (null for no row).
FullUpsert(src, inc) ==
    \E q \in Rows' :
        /\ q.source = src
        /\ q.timestamp = inc.timestamp
        /\ \A fld \in Fields :
               q[fld] = Kept(IF HasRow(src, inc.timestamp)
                             THEN FirstRow(src, inc.timestamp)[fld] ELSE None,
                             inc[fld])

\* C15: an upsert is atomic and loses no update.  The row a writer found is
\* still what the table holds when it commits (its merge sees the commit of
\* the writer before it); the commit leaves every non-null field of either
\* upsert in the record; no upsert is lost to a rejected insert; and the
\* table changes by whole upserts only, so a reader never sees part of one.
C15_NoLostUpdate ==
    /\ [](/\ k_pc = "commit" => IsCurrent(k_row, "KMA10", Kma10Committing.timestamp)
          /\ a_pc = "commit" => IsCurrent(a_row, "KMA", Get(a_payload[a_next].tm))
          /\ k_outcome # "store_error"
          /\ a_outcome # "store_error")
    /\ [][ /\ k_pc = "commit" /\ k_pc' # "commit" => FullUpsert("KMA10", Kma10Committing)
           /\ a_pc = "commit" /\ a_pc' # "commit" => FullUpsert("KMA", KmaIncoming)
           /\ store' # store =>
                  \/ k_pc = "commit" /\ k_pc' = "upsert"
                  \/ a_pc = "commit" /\ a_pc' = "rows"
         ]_vars

\* The second upsert of the slot of 09:50 has found the row of the first,
\* with 21.0, and is about to commit 1.234 with no humidity; the hourly row
\* of 10:00 holds the fields of two upserts; /api/latest-data has answered.
C15_Witness ==
    /\ k_pc = "commit"
    /\ k_row # None
    /\ Get(k_row).temperature = Some(21000)
    /\ Get(k_row).humidity = Some(40000)
    /\ Kma10Committing.temperature = Some(1234)
    /\ Kma10Committing.humidity = None
    /\ \E r \in Rows : /\ r.source = "KMA"
                        /\ r.temperature = Some(21000)
                        /\ r.humidity = Some(40000)
                        /\ r.pressure = Some(1013000)
    /\ latest.status = 200

===========================================================================
